---- MODULE Spec2Model ----
(***************************************************************************)
(* A model of the DepGraph dependency graph of lib/dep_graph.js: the node  *)
(* registry and the two edge indices (JavaScript Maps, kept here as        *)
(* insertion-ordered sequences of entries), the mutations, the iterative   *)
(* depth-first traversal of createDFS, and the queries built on it.        *)
(***************************************************************************)
EXTENDS Integers, Sequences, FiniteSets, TLC

\* The identities callers pass to the graph of the general specification.
Node == {"a", "b", "c"}

\* The most edges a graph of the general specification may hold.
MaxEdges == 3

\* The most edges the source graph or its clone may hold in the clone specification.
MaxEdgesClone == 2

\* The nodes of the four-node specification, in registration order.
NodeFour == <<"a", "b", "c", "d">>

\* The dependencies callers declare in the four-node specification: those of the
\* cycle scenario (a -> b, b -> c, c -> a, d -> a) and of the ordering scenario
\* (a -> d, a -> b, b -> c, d -> b).
EdgeFour ==
  {<<"a", "b">>, <<"b", "c">>, <<"c", "a">>, <<"d", "a">>, <<"a", "d">>, <<"d", "b">>}

\* The identities and the payloads callers pass in the payload specification.
NodeData == {"a", "b"}

Payload == {"x", "y"}

\* The most edges a graph of the payload specification may hold.
MaxEdgesData == 2

\* The most edges a graph of the traversal specification may hold.
MaxEdgesDFS == 2

\* The nodes of the leaves scenario, in registration order, and the edges added
\* and removed among them: those of the scenario, and d -> b, which closes a cycle.
NodeFive == <<"a", "b", "c", "d", "e">>

EdgeFive ==
  {<<"a", "b">>, <<"a", "c">>, <<"b", "c">>, <<"c", "d">>, <<"d", "b">>}

\* The most edges a graph of the copy specification may hold.
MaxEdgesCopy == 2

\* The identities callers pass in the clone specification.
NodeClone == {"a", "b"}

VARIABLES
  graph,   \* the DepGraph instance: [nodes, outgoingEdges, incomingEdges, circular]
  cloned,  \* the graphs returned by clone(): <<>> before the call, <<g2>> after it
  last,    \* the call that has just completed: its target, name, arguments, return
           \* value and error (NoCall once the caller has taken the completion)
  shared,  \* the edge arrays that graph and its clone both hold (the same array
           \* object in both): pairs <<index, key>>
  traversal  \* the traversing call in progress, when its loop is followed step
             \* by step: the closure, the start nodes still to come, the locals,
             \* and the nodes the closure has expanded so far

vars == <<graph, cloned, last, shared, traversal>>

----------------------------------------------------------------------------
(* JavaScript arrays: 0-based indexOf, splice(idx, 1), push, slice(0).      *)

indexOf(arr, x) ==
  IF \E i \in 1..Len(arr) : arr[i] = x
  THEN (CHOOSE i \in 1..Len(arr) : arr[i] = x /\ \A j \in 1..(i - 1) : arr[j] # x) - 1
  ELSE -1

splice(arr, idx) ==
  [i \in 1..(Len(arr) - 1) |-> IF i <= idx THEN arr[i] ELSE arr[i + 1]]

push(arr, x) == Append(arr, x)

slice(arr) == arr

reverse(arr) == [i \in 1..Len(arr) |-> arr[Len(arr) + 1 - i]]

RECURSIVE join(_, _)
join(arr, sep) ==
  IF arr = <<>> THEN ""
  ELSE IF Len(arr) = 1 THEN arr[1]
  ELSE arr[1] \o sep \o join(Tail(arr), sep)

elements(arr) == {arr[i] : i \in 1..Len(arr)}

(* JavaScript Maps: a sequence of entries in insertion order.  set() on a   *)
(* present key replaces the value in place, on an absent key appends.       *)

mapKeys(m) == [i \in 1..Len(m) |-> m[i].key]

mapHas(m, k) == \E i \in 1..Len(m) : m[i].key = k

mapGet(m, k) == m[CHOOSE i \in 1..Len(m) : m[i].key = k].value

mapSet(m, k, v) ==
  IF mapHas(m, k)
  THEN [i \in 1..Len(m) |-> IF m[i].key = k THEN [key |-> k, value |-> v] ELSE m[i]]
  ELSE Append(m, [key |-> k, value |-> v])

mapDelete(m, k) == SelectSeq(m, LAMBDA e : e.key # k)

mapSize(m) == Len(m)

----------------------------------------------------------------------------
(* Errors and completions of a call.                                        *)

NoError == [name |-> "", message |-> "", cyclePath |-> <<>>]

NodeDoesNotExist(node) ==
  [name |-> "Error", message |-> "Node does not exist: " \o node, cyclePath |-> <<>>]

DepGraphCycleError(cyclePath) ==
  [name |-> "DepGraphCycleError",
   message |-> "Dependency Cycle Found: " \o join(cyclePath, " -> "),
   cyclePath |-> cyclePath]

\* edges.get(node) is undefined and its .length is read
TypeError == [name |-> "TypeError", message |-> "undefined", cyclePath |-> <<>>]

Return(self, value) == [self |-> self, value |-> value, error |-> NoError]

Throw(self, error) == [self |-> self, value |-> <<>>, error |-> error]

----------------------------------------------------------------------------
(* The constructor and the mutations.                                       *)

DepGraph(circular) ==
  [nodes |-> <<>>, outgoingEdges |-> <<>>, incomingEdges |-> <<>>, circular |-> circular]

size(self) == mapSize(self.nodes)

hasNode(self, node) == mapHas(self.nodes, node)

\* Fault variant of addNode: an existing node is registered afresh.
addNode_registersAgain(self, node, hasData, data) ==
  [self EXCEPT
     !.nodes = mapSet(@, node, IF hasData THEN data ELSE node),
     !.outgoingEdges = mapSet(@, node, <<>>),
     !.incomingEdges = mapSet(@, node, <<>>)]

addNode(self, node, hasData, data) ==
  IF ~hasNode(self, node)
  THEN [self EXCEPT
          !.nodes = mapSet(@, node, IF hasData THEN data ELSE node),
          !.outgoingEdges = mapSet(@, node, <<>>),
          !.incomingEdges = mapSet(@, node, <<>>)]
  ELSE self

removeFrom(edgeList, node) ==
  [i \in 1..Len(edgeList) |->
     LET v == edgeList[i].value
         idx == indexOf(v, node)
     IN [key |-> edgeList[i].key, value |-> IF idx >= 0 THEN splice(v, idx) ELSE v]]

\* Fault variant of removeNode: the node's entry in the outgoing index survives.
removeNode_keepsOutgoingEntry(self, node) ==
  IF hasNode(self, node)
  THEN [self EXCEPT
          !.nodes = mapDelete(@, node),
          !.outgoingEdges = removeFrom(@, node),
          !.incomingEdges = removeFrom(mapDelete(@, node), node)]
  ELSE self

\* Fault variant of removeNode: only the incoming lists are swept, so the node
\* stays in the outgoing lists of its dependants.
removeNode_incomingOnly(self, node) ==
  IF hasNode(self, node)
  THEN [self EXCEPT
          !.nodes = mapDelete(@, node),
          !.outgoingEdges = mapDelete(@, node),
          !.incomingEdges = removeFrom(mapDelete(@, node), node)]
  ELSE self

removeNode(self, node) ==
  IF hasNode(self, node)
  THEN [self EXCEPT
          !.nodes = mapDelete(@, node),
          !.outgoingEdges = removeFrom(mapDelete(@, node), node),
          !.incomingEdges = removeFrom(mapDelete(@, node), node)]
  ELSE self

setNodeData(self, node, data) ==
  IF hasNode(self, node)
  THEN Return([self EXCEPT !.nodes = mapSet(@, node, data)], <<>>)
  ELSE Throw(self, NodeDoesNotExist(node))

\* Fault variant of addDependency: the endpoints are pushed whether or not the
\* lists hold them.
addDependency_pushesAgain(self, from, to) ==
  IF ~hasNode(self, from) THEN Throw(self, NodeDoesNotExist(from))
  ELSE IF ~hasNode(self, to) THEN Throw(self, NodeDoesNotExist(to))
  ELSE Return([self EXCEPT
                 !.outgoingEdges = mapSet(@, from, push(mapGet(self.outgoingEdges, from), to)),
                 !.incomingEdges = mapSet(@, to, push(mapGet(self.incomingEdges, to), from))],
              TRUE)

\* Fault variant of addDependency: the 'to' endpoint is checked first.
addDependency_checksToFirst(self, from, to) ==
  IF ~hasNode(self, to) THEN Throw(self, NodeDoesNotExist(to))
  ELSE IF ~hasNode(self, from) THEN Throw(self, NodeDoesNotExist(from))
  ELSE LET out == mapGet(self.outgoingEdges, from)
           inc == mapGet(self.incomingEdges, to)
       IN Return([self EXCEPT
                    !.outgoingEdges =
                       IF indexOf(out, to) = -1 THEN mapSet(@, from, push(out, to)) ELSE @,
                    !.incomingEdges =
                       IF indexOf(inc, from) = -1 THEN mapSet(@, to, push(inc, from)) ELSE @],
                 TRUE)

\* Fault variant of addDependency: only the outgoing index is updated.
addDependency_outgoingOnly(self, from, to) ==
  IF ~hasNode(self, from) THEN Throw(self, NodeDoesNotExist(from))
  ELSE IF ~hasNode(self, to) THEN Throw(self, NodeDoesNotExist(to))
  ELSE LET out == mapGet(self.outgoingEdges, from)
       IN Return([self EXCEPT
                    !.outgoingEdges =
                       IF indexOf(out, to) = -1 THEN mapSet(@, from, push(out, to)) ELSE @],
                 TRUE)

addDependency(self, from, to) ==
  IF ~hasNode(self, from) THEN Throw(self, NodeDoesNotExist(from))
  ELSE IF ~hasNode(self, to) THEN Throw(self, NodeDoesNotExist(to))
  ELSE LET out == mapGet(self.outgoingEdges, from)
           inc == mapGet(self.incomingEdges, to)
       IN Return([self EXCEPT
                    !.outgoingEdges =
                       IF indexOf(out, to) = -1 THEN mapSet(@, from, push(out, to)) ELSE @,
                    !.incomingEdges =
                       IF indexOf(inc, from) = -1 THEN mapSet(@, to, push(inc, from)) ELSE @],
                 TRUE)

\* Fault variant of removeDependency: splice is called whatever indexOf gave, and
\* splice(-1, 1) removes the last element of the array.
removeDependency_spliceAlways(self, from, to) ==
  LET spliced(arr, x) == IF indexOf(arr, x) >= 0 THEN splice(arr, indexOf(arr, x))
                         ELSE SubSeq(arr, 1, Len(arr) - 1)
      afterOut ==
        IF hasNode(self, from)
        THEN [self EXCEPT !.outgoingEdges =
                mapSet(@, from, spliced(mapGet(self.outgoingEdges, from), to))]
        ELSE self
  IN IF hasNode(afterOut, to)
     THEN [afterOut EXCEPT !.incomingEdges =
             mapSet(@, to, spliced(mapGet(afterOut.incomingEdges, to), from))]
     ELSE afterOut

removeDependency(self, from, to) ==
  LET afterOut ==
        IF hasNode(self, from)
        THEN LET out == mapGet(self.outgoingEdges, from)
                 idx == indexOf(out, to)
             IN IF idx >= 0
                THEN [self EXCEPT !.outgoingEdges = mapSet(@, from, splice(out, idx))]
                ELSE self
        ELSE self
  IN IF hasNode(afterOut, to)
     THEN LET inc == mapGet(afterOut.incomingEdges, to)
              idx == indexOf(inc, from)
          IN IF idx >= 0
             THEN [afterOut EXCEPT !.incomingEdges = mapSet(@, to, splice(inc, idx))]
             ELSE afterOut
     ELSE afterOut

\* Fault variant of sharedArrays: the result's entries are the source's arrays.
sharedArrays_noSlice(source) ==
  {<<index, source.nodes[i].key>> :
     index \in {"outgoingEdges", "incomingEdges"}, i \in 1..Len(source.nodes)}

\* The arrays of the source that the result of clone() holds too: none, every
\* entry of the result is a slice(0) copy of the source's array.
sharedArrays(source) == {}

\* Fault variant of clone: the result keeps the flag its constructor gave it.
clone_withoutFlag(source) ==
  [nodes |-> [i \in 1..Len(source.nodes) |-> source.nodes[i]],
   outgoingEdges |->
     [i \in 1..Len(source.nodes) |->
        [key |-> source.nodes[i].key,
         value |-> slice(mapGet(source.outgoingEdges, source.nodes[i].key))]],
   incomingEdges |->
     [i \in 1..Len(source.nodes) |->
        [key |-> source.nodes[i].key,
         value |-> slice(mapGet(source.incomingEdges, source.nodes[i].key))]],
   circular |-> FALSE]

clone(source) ==
  [nodes |-> [i \in 1..Len(source.nodes) |-> source.nodes[i]],
   outgoingEdges |->
     [i \in 1..Len(source.nodes) |->
        [key |-> source.nodes[i].key,
         value |-> slice(mapGet(source.outgoingEdges, source.nodes[i].key))]],
   incomingEdges |->
     [i \in 1..Len(source.nodes) |->
        [key |-> source.nodes[i].key,
         value |-> slice(mapGet(source.incomingEdges, source.nodes[i].key))]],
   circular |-> source.circular]

----------------------------------------------------------------------------
(* createDFS: the traversal closure.  The closure's variables are a record: *)
(* the parameters, the visited set and the result array shared by all the   *)
(* calls of one closure, and the error a call ended with.                   *)

\* Fault variant of createDFS: the closure tolerates cycles whatever the flag.
createDFS_tolerant(edges, leavesOnly, result, circular) ==
  [edges |-> edges, leavesOnly |-> leavesOnly, result |-> result,
   circular |-> TRUE, visited |-> {}, error |-> NoError]

createDFS(edges, leavesOnly, result, circular) ==
  [edges |-> edges, leavesOnly |-> leavesOnly, result |-> result,
   circular |-> circular, visited |-> {}, error |-> NoError]

frame(node) == [node |-> node, processed |-> FALSE]

pop(arr) == SubSeq(arr, 1, Len(arr) - 1)

\* Fault variant of startDFS: the visited set is made anew for every call.
startDFS_visitedPerCall(d, start) ==
  [visited |-> {}, result |-> d.result, inCurrentPath |-> {},
   currentPath |-> <<>>, todo |-> <<frame(start)>>, error |-> NoError]

\* The locals of one call of the closure.
startDFS(d, start) ==
  [visited |-> d.visited, result |-> d.result, inCurrentPath |-> {},
   currentPath |-> <<>>, todo |-> <<frame(start)>>, error |-> NoError]

\* Fault variant of cycleFound: the revisited node is not added to the path.
cycleFound_noPush(st, node) ==
  [st EXCEPT !.error = DepGraphCycleError(st.currentPath)]

\* A node that is on the current path is met again and cycles are not tolerated:
\* the path is completed with the node and thrown.
cycleFound(st, node) ==
  [st EXCEPT !.currentPath = push(@, node),
             !.error = DepGraphCycleError(push(st.currentPath, node))]

\* Fault variant of visit: the processed frame ends up above the frames of the
\* node's edges, so the node is unrolled before they are visited.
visit_frameOnTop(d, st, node) ==
  IF ~mapHas(d.edges, node)
  THEN [st EXCEPT !.inCurrentPath = @ \cup {node},
                  !.currentPath = push(@, node),
                  !.error = TypeError]
  ELSE LET nodeEdges == mapGet(d.edges, node)
       IN [st EXCEPT
             !.inCurrentPath = @ \cup {node},
             !.currentPath = push(@, node),
             !.todo = pop(@) \o [i \in 1..Len(nodeEdges) |-> frame(reverse(nodeEdges)[i])]
                        \o <<[node |-> node, processed |-> TRUE]>>]

\* Fault variant of visit: the node is appended to the result when it is visited.
visit_appends(d, st, node) ==
  IF ~mapHas(d.edges, node)
  THEN [st EXCEPT !.inCurrentPath = @ \cup {node},
                  !.currentPath = push(@, node),
                  !.error = TypeError]
  ELSE LET nodeEdges == mapGet(d.edges, node)
       IN [st EXCEPT
             !.inCurrentPath = @ \cup {node},
             !.currentPath = push(@, node),
             !.result = push(@, node),
             !.todo = pop(@) \o <<[node |-> node, processed |-> TRUE]>>
                        \o [i \in 1..Len(nodeEdges) |-> frame(reverse(nodeEdges)[i])]]

\* Fault variant of visit: the edges go on the stack in declaration order.
visit_declarationOrder(d, st, node) ==
  IF ~mapHas(d.edges, node)
  THEN [st EXCEPT !.inCurrentPath = @ \cup {node},
                  !.currentPath = push(@, node),
                  !.error = TypeError]
  ELSE LET nodeEdges == mapGet(d.edges, node)
       IN [st EXCEPT
             !.inCurrentPath = @ \cup {node},
             !.currentPath = push(@, node),
             !.todo = pop(@) \o <<[node |-> node, processed |-> TRUE]>>
                        \o [i \in 1..Len(nodeEdges) |-> frame(nodeEdges[i])]]

\* The visiting phase of a node met for the first time: it joins the current
\* path, its edges go on the stack in reverse order, its frame is kept as processed.
visit(d, st, node) ==
  IF ~mapHas(d.edges, node)
  THEN [st EXCEPT !.inCurrentPath = @ \cup {node},
                  !.currentPath = push(@, node),
                  !.error = TypeError]
  ELSE LET nodeEdges == mapGet(d.edges, node)
       IN [st EXCEPT
             !.inCurrentPath = @ \cup {node},
             !.currentPath = push(@, node),
             !.todo = pop(@) \o <<[node |-> node, processed |-> TRUE]>>
                        \o [i \in 1..Len(nodeEdges) |-> frame(reverse(nodeEdges)[i])]]

\* Fault variant of unroll: the node stays on the current path.
unroll_keepsPath(d, st, node) ==
  [st EXCEPT
     !.todo = pop(@),
     !.inCurrentPath = @ \ {node},
     !.visited = @ \cup {node},
     !.result = IF ~d.leavesOnly \/ Len(mapGet(d.edges, node)) = 0
                THEN push(@, node) ELSE @]

\* Fault variant of unroll: every node is pushed to the result.
unroll_allNodes(d, st, node) ==
  [st EXCEPT
     !.todo = pop(@),
     !.currentPath = pop(@),
     !.inCurrentPath = @ \ {node},
     !.visited = @ \cup {node},
     !.result = push(@, node)]

\* The unrolling phase of a node whose edges have been visited.
unroll(d, st, node) ==
  [st EXCEPT
     !.todo = pop(@),
     !.currentPath = pop(@),
     !.inCurrentPath = @ \ {node},
     !.visited = @ \cup {node},
     !.result = IF ~d.leavesOnly \/ Len(mapGet(d.edges, node)) = 0
                THEN push(@, node) ELSE @]

\* Fault variant of stepDFS: when cycles are tolerated, a node met again on the
\* current path is visited like a new node.
stepDFS_revisits(d, st) ==
  LET current == st.todo[Len(st.todo)]
      processed == current.processed
      node == current.node
  IN IF ~processed
     THEN IF node \in st.visited
          THEN [st EXCEPT !.todo = pop(@)]
          ELSE IF node \in st.inCurrentPath /\ ~d.circular
          THEN cycleFound(st, node)
          ELSE visit(d, st, node)
     ELSE unroll(d, st, node)

\* One iteration of "while (todo.length > 0)".
stepDFS(d, st) ==
  LET current == st.todo[Len(st.todo)]
      processed == current.processed
      node == current.node
  IN IF ~processed
     THEN IF node \in st.visited
          THEN [st EXCEPT !.todo = pop(@)]
          ELSE IF node \in st.inCurrentPath
          THEN IF d.circular
               THEN [st EXCEPT !.todo = pop(@)]
               ELSE cycleFound(st, node)
          ELSE visit(d, st, node)
     ELSE unroll(d, st, node)

RECURSIVE loopDFS(_, _)
loopDFS(d, st) ==
  IF Len(st.todo) > 0 /\ st.error = NoError
  THEN loopDFS(d, stepDFS(d, st))
  ELSE st

\* One call DFS(start) of the closure d: the closure after the call.
DFS(d, start) ==
  IF start \in d.visited
  THEN d
  ELSE LET st == loopDFS(d, startDFS(d, start))
       IN [d EXCEPT !.visited = st.visited, !.result = st.result, !.error = st.error]

\* starts.forEach(function (n) { DFS(n); }): a throw ends the forEach.
RECURSIVE forEachDFS(_, _)
forEachDFS(d, starts) ==
  IF starts = <<>> \/ d.error # NoError
  THEN d
  ELSE forEachDFS(DFS(d, Head(starts)), Tail(starts))

----------------------------------------------------------------------------
(* The recursive depth-first search of the earlier releases, which the       *)
(* iterative one replaced: a node is marked visited when it is entered, its  *)
(* edges are followed in declaration order, and it is appended on the way    *)
(* back.                                                                     *)

oldCreateDFS(result) ==
  [currentPath |-> <<>>, visited |-> {}, result |-> result, error |-> NoError]

oldCycleError(currentPath) ==
  [name |-> "Error",
   message |-> "Dependency Cycle Found: " \o join(currentPath, " -> "),
   cyclePath |-> currentPath]

RECURSIVE oldDFS(_, _, _, _)
RECURSIVE oldForEach(_, _, _, _)

\* edges[name].forEach(function (edgeName) {...}): a throw ends the forEach.
oldForEach(edges, leavesOnly, s, edgeNames) ==
  IF edgeNames = <<>> \/ s.error # NoError
  THEN s
  ELSE LET edgeName == Head(edgeNames)
           next == IF edgeName \notin s.visited
                   THEN oldDFS(edges, leavesOnly, s, edgeName)
                   ELSE IF indexOf(s.currentPath, edgeName) >= 0
                   THEN [s EXCEPT !.currentPath = push(@, edgeName),
                                  !.error = oldCycleError(push(s.currentPath, edgeName))]
                   ELSE s
       IN oldForEach(edges, leavesOnly, next, Tail(edgeNames))

oldDFS(edges, leavesOnly, s, name) ==
  LET entered == [s EXCEPT !.visited = @ \cup {name}, !.currentPath = push(@, name)]
      after == oldForEach(edges, leavesOnly, entered, mapGet(edges, name))
  IN IF after.error # NoError
     THEN after
     ELSE [after EXCEPT
             !.currentPath = pop(@),
             !.result = IF (~leavesOnly \/ Len(mapGet(edges, name)) = 0)
                           /\ indexOf(after.result, name) = -1
                        THEN push(@, name) ELSE @]

\* dependenciesOf and dependantsOf of the earlier releases, on the given index.
oldTransitiveOf(self, edges, name, leavesOnly) ==
  IF hasNode(self, name)
  THEN LET s == oldDFS(edges, leavesOnly, oldCreateDFS(<<>>), name)
           idx == indexOf(s.result, name)
       IN IF s.error # NoError
          THEN Throw(self, s.error)
          ELSE Return(self, IF idx >= 0 THEN splice(s.result, idx) ELSE s.result)
  ELSE Throw(self, NodeDoesNotExist(name))

----------------------------------------------------------------------------
(* The queries.                                                             *)

getNodeData(self, node) ==
  IF hasNode(self, node)
  THEN Return(self, mapGet(self.nodes, node))
  ELSE Throw(self, NodeDoesNotExist(node))

directDependenciesOf(self, node) ==
  IF hasNode(self, node)
  THEN Return(self, slice(mapGet(self.outgoingEdges, node)))
  ELSE Throw(self, NodeDoesNotExist(node))

directDependantsOf(self, node) ==
  IF hasNode(self, node)
  THEN Return(self, slice(mapGet(self.incomingEdges, node)))
  ELSE Throw(self, NodeDoesNotExist(node))

\* Fault variant of transitiveOf: the queried node is left in the result.
transitiveOf_keepStart(self, edges, node, leavesOnly) ==
  IF hasNode(self, node)
  THEN LET d == DFS(createDFS(edges, leavesOnly, <<>>, self.circular), node)
       IN IF d.error # NoError
          THEN Throw(self, d.error)
          ELSE Return(self, d.result)
  ELSE Throw(self, NodeDoesNotExist(node))

\* The body shared by dependenciesOf and dependantsOf, over the given edge index.
transitiveOf(self, edges, node, leavesOnly) ==
  IF hasNode(self, node)
  THEN LET d == DFS(createDFS(edges, leavesOnly, <<>>, self.circular), node)
           idx == indexOf(d.result, node)
       IN IF d.error # NoError
          THEN Throw(self, d.error)
          ELSE Return(self, IF idx >= 0 THEN splice(d.result, idx) ELSE d.result)
  ELSE Throw(self, NodeDoesNotExist(node))

dependenciesOf(self, node, leavesOnly) ==
  transitiveOf(self, self.outgoingEdges, node, leavesOnly)

dependantsOf(self, node, leavesOnly) ==
  transitiveOf(self, self.incomingEdges, node, leavesOnly)

\* Fault variant of entryNodes: the nodes are filtered by their outgoing list.
entryNodes_outgoing(self) ==
  SelectSeq(mapKeys(self.nodes), LAMBDA node : Len(mapGet(self.outgoingEdges, node)) = 0)

entryNodes(self) ==
  SelectSeq(mapKeys(self.nodes), LAMBDA node : Len(mapGet(self.incomingEdges, node)) = 0)

\* Fault variant of CycleDFS: the sweep starts at the entry nodes only.
CycleDFS_entryNodes(self, keys) ==
  IF ~self.circular
  THEN forEachDFS(createDFS(self.outgoingEdges, FALSE, <<>>, self.circular),
                  entryNodes(self))
  ELSE createDFS(self.outgoingEdges, FALSE, <<>>, self.circular)

\* The cycle sweep of overallOrder: CycleDFS from every key, unless circular.
CycleDFS(self, keys) ==
  IF ~self.circular
  THEN forEachDFS(createDFS(self.outgoingEdges, FALSE, <<>>, self.circular), keys)
  ELSE createDFS(self.outgoingEdges, FALSE, <<>>, self.circular)

\* Fault variant of OrderDFS: the traversal walks the incoming index.
OrderDFS_incoming(self, keys, leavesOnly) ==
  LET fromEntries ==
        forEachDFS(createDFS(self.incomingEdges, leavesOnly, <<>>, self.circular),
                   entryNodes(self))
  IN IF self.circular /\ fromEntries.error = NoError
     THEN forEachDFS(fromEntries,
                     SelectSeq(keys, LAMBDA node : indexOf(fromEntries.result, node) = -1))
     ELSE fromEntries

\* Fault variant of OrderDFS: only the entry nodes are traversed.
OrderDFS_entriesOnly(self, keys, leavesOnly) ==
  forEachDFS(createDFS(self.outgoingEdges, leavesOnly, <<>>, self.circular),
             entryNodes(self))

\* The result-building sweeps of overallOrder: from the entry nodes, then, when
\* circular, from the keys that are not yet in the result.
OrderDFS(self, keys, leavesOnly) ==
  LET fromEntries ==
        forEachDFS(createDFS(self.outgoingEdges, leavesOnly, <<>>, self.circular),
                   entryNodes(self))
  IN IF self.circular /\ fromEntries.error = NoError
     THEN forEachDFS(fromEntries,
                     SelectSeq(keys, LAMBDA node : indexOf(fromEntries.result, node) = -1))
     ELSE fromEntries

overallOrder(self, leavesOnly) ==
  LET keys == mapKeys(self.nodes)
  IN IF Len(keys) = 0
     THEN Return(self, <<>>)
     ELSE LET sweep == CycleDFS(self, keys)
          IN IF sweep.error # NoError
             THEN Throw(self, sweep.error)
             ELSE LET d == OrderDFS(self, keys, leavesOnly)
                  IN IF d.error # NoError
                     THEN Throw(self, d.error)
                     ELSE Return(self, d.result)

----------------------------------------------------------------------------
(* The calls.  The caller is single-threaded: it makes one call of a method *)
(* on the graph ("graph") or on its clone ("clone"), which runs to its      *)
(* completion (a return value or an error), takes the completion, and only  *)
(* then makes the next call.                                                *)

NoLocals ==
  [visited |-> {}, result |-> <<>>, inCurrentPath |-> {}, currentPath |-> <<>>,
   todo |-> <<>>, error |-> NoError]

\* No traversing call is being followed.
NoTraversal ==
  [op |-> "", args |-> <<>>, leavesOnly |-> FALSE, phase |-> "",
   d |-> createDFS(<<>>, FALSE, <<>>, FALSE), starts |-> <<>>,
   running |-> FALSE, st |-> NoLocals, expanded |-> <<>>]

NoCall ==
  [target |-> "", op |-> "", args |-> <<>>, leavesOnly |-> FALSE,
   value |-> <<>>, error |-> NoError]

Call(t, op, args, leavesOnly, completion) ==
  [target |-> t, op |-> op, args |-> args, leavesOnly |-> leavesOnly,
   value |-> completion.value, error |-> completion.error]

\* No completion is pending, and the target of the next call exists.
Ready(t) ==
  /\ last.op = ""
  /\ traversal.op = ""
  /\ t = "graph" \/ (t = "clone" /\ cloned # <<>>)

Self(t) == IF t = "graph" THEN graph ELSE cloned[1]

\* push and splice change an array in place: an array that both graphs hold
\* shows the change in both.
inPlace(other, self, both) ==
  LET seen(index) ==
        [i \in 1..Len(other[index]) |->
           IF <<index, other[index][i].key>> \in both
           THEN [key |-> other[index][i].key,
                 value |-> mapGet(self[index], other[index][i].key)]
           ELSE other[index][i]]
  IN [other EXCEPT !.outgoingEdges = seen("outgoingEdges"),
                   !.incomingEdges = seen("incomingEdges")]

Becomes(t, self) ==
  LET both == {p \in shared : mapHas(self[p[1]], p[2])}
  IN /\ shared' = both
     /\ IF t = "graph"
        THEN /\ graph' = self
             /\ cloned' = IF cloned = <<>> THEN cloned
                          ELSE <<inPlace(cloned[1], self, both)>>
        ELSE /\ cloned' = <<self>>
             /\ graph' = inPlace(graph, self, both)

edgeCount(self) ==
  LET RECURSIVE total(_)
      total(m) == IF m = <<>> THEN 0 ELSE Len(Head(m).value) + total(Tail(m))
  IN total(self.outgoingEdges)

CallAddNode(t, node) ==
  /\ Ready(t)
  /\ UNCHANGED traversal
  /\ Becomes(t, addNode(Self(t), node, FALSE, node))
  /\ last' = Call(t, "addNode", <<node>>, FALSE, Return(Self(t), <<>>))

CallRemoveNode(t, node) ==
  /\ Ready(t)
  /\ UNCHANGED traversal
  /\ Becomes(t, removeNode(Self(t), node))
  /\ last' = Call(t, "removeNode", <<node>>, FALSE, Return(Self(t), <<>>))

CallAddDependency(t, from, to, bound) ==
  /\ Ready(t)
  /\ UNCHANGED traversal
  /\ LET completion == addDependency(Self(t), from, to)
     IN /\ edgeCount(completion.self) <= bound
        /\ Becomes(t, completion.self)
        /\ last' = Call(t, "addDependency", <<from, to>>, FALSE, completion)

CallRemoveDependency(t, from, to) ==
  /\ Ready(t)
  /\ UNCHANGED traversal
  /\ Becomes(t, removeDependency(Self(t), from, to))
  /\ last' = Call(t, "removeDependency", <<from, to>>, FALSE, Return(Self(t), <<>>))

CallClone ==
  /\ Ready("graph")
  /\ cloned' = <<clone(graph)>>
  /\ shared' = sharedArrays(graph)
  /\ UNCHANGED traversal
  /\ last' = Call("graph", "clone", <<>>, FALSE, Return(graph, <<>>))
  /\ UNCHANGED graph

CallDependenciesOf(t, node, leavesOnly) ==
  /\ Ready(t)
  /\ UNCHANGED traversal
  /\ last' = Call(t, "dependenciesOf", <<node>>, leavesOnly,
                  dependenciesOf(Self(t), node, leavesOnly))
  /\ UNCHANGED <<graph, cloned, shared>>

CallDependantsOf(t, node, leavesOnly) ==
  /\ Ready(t)
  /\ UNCHANGED traversal
  /\ last' = Call(t, "dependantsOf", <<node>>, leavesOnly,
                  dependantsOf(Self(t), node, leavesOnly))
  /\ UNCHANGED <<graph, cloned, shared>>

CallOverallOrder(t, leavesOnly) ==
  /\ Ready(t)
  /\ UNCHANGED traversal
  /\ last' = Call(t, "overallOrder", <<>>, leavesOnly, overallOrder(Self(t), leavesOnly))
  /\ UNCHANGED <<graph, cloned, shared>>

CallAddNodeData(t, node, data) ==
  /\ Ready(t)
  /\ UNCHANGED traversal
  /\ Becomes(t, addNode(Self(t), node, TRUE, data))
  /\ last' = Call(t, "addNode", <<node, data>>, FALSE, Return(Self(t), <<>>))

CallSetNodeData(t, node, data) ==
  /\ Ready(t)
  /\ UNCHANGED traversal
  /\ LET completion == setNodeData(Self(t), node, data)
     IN /\ Becomes(t, completion.self)
        /\ last' = Call(t, "setNodeData", <<node, data>>, FALSE, completion)

CallGetNodeData(t, node) ==
  /\ Ready(t)
  /\ UNCHANGED traversal
  /\ last' = Call(t, "getNodeData", <<node>>, FALSE, getNodeData(Self(t), node))
  /\ UNCHANGED <<graph, cloned, shared>>

CallDirectDependenciesOf(t, node) ==
  /\ Ready(t)
  /\ UNCHANGED traversal
  /\ last' = Call(t, "directDependenciesOf", <<node>>, FALSE,
                  directDependenciesOf(Self(t), node))
  /\ UNCHANGED <<graph, cloned, shared>>

CallDirectDependantsOf(t, node) ==
  /\ Ready(t)
  /\ UNCHANGED traversal
  /\ last' = Call(t, "directDependantsOf", <<node>>, FALSE,
                  directDependantsOf(Self(t), node))
  /\ UNCHANGED <<graph, cloned, shared>>

CallEntryNodes(t) ==
  /\ Ready(t)
  /\ UNCHANGED traversal
  /\ last' = Call(t, "entryNodes", <<>>, FALSE, Return(Self(t), entryNodes(Self(t))))
  /\ UNCHANGED <<graph, cloned, shared>>

CallSize(t) ==
  /\ Ready(t)
  /\ UNCHANGED traversal
  /\ last' = Call(t, "size", <<>>, FALSE, Return(Self(t), size(Self(t))))
  /\ UNCHANGED <<graph, cloned, shared>>

\* The caller takes the completion of its call and goes on.
Continue ==
  /\ last.op # ""
  /\ last' = NoCall
  /\ UNCHANGED <<graph, cloned, shared, traversal>>

----------------------------------------------------------------------------
(* The general specification: any sequence of calls on one graph, in either *)
(* mode, over the identities of Node.                                       *)

Init ==
  /\ \E circular \in BOOLEAN : graph = DepGraph(circular)
  /\ cloned = <<>>
  /\ last = NoCall
  /\ shared = {}
  /\ traversal = NoTraversal

Next ==
  \/ \E node \in Node : CallAddNode("graph", node)
  \/ \E node \in Node : CallRemoveNode("graph", node)
  \/ \E from \in Node, to \in Node : CallAddDependency("graph", from, to, MaxEdges)
  \/ \E from \in Node, to \in Node : CallRemoveDependency("graph", from, to)
  \/ \E node \in Node, leavesOnly \in BOOLEAN : CallDependenciesOf("graph", node, leavesOnly)
  \/ \E node \in Node, leavesOnly \in BOOLEAN : CallDependantsOf("graph", node, leavesOnly)
  \/ \E leavesOnly \in BOOLEAN : CallOverallOrder("graph", leavesOnly)
  \/ CallEntryNodes("graph")
  \/ Continue

Spec == Init /\ [][Next]_vars

(* The four-node specification: the nodes a, b, c, d were added in that     *)
(* order; dependencies among them are added and removed, and queried.       *)

RECURSIVE addNodes(_, _)
addNodes(self, names) ==
  IF names = <<>> THEN self
  ELSE addNodes(addNode(self, Head(names), FALSE, Head(names)), Tail(names))

RECURSIVE addDependencies(_, _)
addDependencies(self, pairs) ==
  IF pairs = <<>> THEN self
  ELSE addDependencies(addDependency(self, Head(pairs)[1], Head(pairs)[2]).self, Tail(pairs))

\* The graph of the cycle scenario: a -> b, b -> c, c -> a, d -> a.
CycleScenario ==
  addDependencies(addNodes(DepGraph(FALSE), NodeFour),
                  << <<"a", "b">>, <<"b", "c">>, <<"c", "a">>, <<"d", "a">> >>)

\* The graph of the ordering scenario: a -> d, a -> b, b -> c, d -> b.
OrderingScenario ==
  addDependencies(addNodes(DepGraph(FALSE), NodeFour),
                  << <<"a", "d">>, <<"a", "b">>, <<"b", "c">>, <<"d", "b">> >>)

InitFour ==
  /\ \E circular \in BOOLEAN : graph = addNodes(DepGraph(circular), NodeFour)
  /\ cloned = <<>>
  /\ last = NoCall
  /\ shared = {}
  /\ traversal = NoTraversal

NextFour ==
  \/ \E e \in EdgeFour : CallAddDependency("graph", e[1], e[2], Cardinality(EdgeFour))
  \/ \E e \in EdgeFour : CallRemoveDependency("graph", e[1], e[2])
  \/ \E node \in elements(NodeFour), leavesOnly \in BOOLEAN :
        CallDependenciesOf("graph", node, leavesOnly)
  \/ \E node \in elements(NodeFour), leavesOnly \in BOOLEAN :
        CallDependantsOf("graph", node, leavesOnly)
  \/ \E leavesOnly \in BOOLEAN : CallOverallOrder("graph", leavesOnly)
  \/ Continue

SpecFour == InitFour /\ [][NextFour]_vars

(* The leaves specification: the nodes a, b, c, d, e of the leaves scenario  *)
(* are registered, in this order; dependencies among them are added and     *)
(* removed, and the traversals from a node and in overall order are queried. *)

\* The graph of the leaves scenario: a -> b, a -> c, b -> c, c -> d, and e alone.
LeavesScenario ==
  addDependencies(addNodes(DepGraph(FALSE), NodeFive),
                  << <<"a", "b">>, <<"a", "c">>, <<"b", "c">>, <<"c", "d">> >>)

InitFive ==
  /\ \E circular \in BOOLEAN : graph = addNodes(DepGraph(circular), NodeFive)
  /\ cloned = <<>>
  /\ last = NoCall
  /\ shared = {}
  /\ traversal = NoTraversal

NextFive ==
  \/ \E e \in EdgeFive : CallAddDependency("graph", e[1], e[2], Cardinality(EdgeFive))
  \/ \E e \in EdgeFive : CallRemoveDependency("graph", e[1], e[2])
  \/ \E node \in elements(NodeFive), leavesOnly \in BOOLEAN :
        CallDependenciesOf("graph", node, leavesOnly)
  \/ \E leavesOnly \in BOOLEAN : CallOverallOrder("graph", leavesOnly)
  \/ Continue

SpecFive == InitFive /\ [][NextFive]_vars

(* The payload specification: nodes are registered with and without a       *)
(* payload, payloads are read and replaced, and every call that names a     *)
(* node is made for registered and unregistered identities.                 *)

NextData ==
  \/ \E node \in NodeData : CallAddNode("graph", node)
  \/ \E node \in NodeData, data \in Payload : CallAddNodeData("graph", node, data)
  \/ \E node \in NodeData, data \in Payload : CallSetNodeData("graph", node, data)
  \/ \E node \in NodeData : CallGetNodeData("graph", node)
  \/ \E node \in NodeData : CallRemoveNode("graph", node)
  \/ \E from \in NodeData, to \in NodeData :
        CallAddDependency("graph", from, to, MaxEdgesData)
  \/ \E from \in NodeData, to \in NodeData : CallRemoveDependency("graph", from, to)
  \/ \E node \in NodeData : CallDirectDependenciesOf("graph", node)
  \/ \E node \in NodeData : CallDirectDependantsOf("graph", node)
  \/ \E node \in NodeData : CallDependenciesOf("graph", node, FALSE)
  \/ \E node \in NodeData : CallDependantsOf("graph", node, FALSE)
  \/ Continue

SpecData == Init /\ [][NextData]_vars

(* The traversal specification: the traversing calls are followed through   *)
(* the calls of their closure and the iterations of its loop, one at a time. *)

Traverse(op, args, leavesOnly, phase, d, starts) ==
  [op |-> op, args |-> args, leavesOnly |-> leavesOnly, phase |-> phase,
   d |-> d, starts |-> starts, running |-> FALSE, st |-> NoLocals,
   expanded |-> <<>>]

\* dependenciesOf(node, leavesOnly) or dependantsOf(node, leavesOnly) of a
\* registered node creates its closure and is about to call it on the node.
BeginTransitive(op, node, leavesOnly) ==
  /\ Ready("graph")
  /\ hasNode(graph, node)
  /\ traversal' =
       Traverse(op, <<node>>, leavesOnly, "DFS",
                createDFS(IF op = "dependantsOf" THEN graph.incomingEdges
                                                 ELSE graph.outgoingEdges,
                          leavesOnly, <<>>, graph.circular),
                <<node>>)
  /\ UNCHANGED <<graph, cloned, last, shared>>

\* Fault variant of BeginOverallOrder: the sweep over the entry nodes comes first
\* in both modes.
BeginOverallOrder_entriesFirst(leavesOnly) ==
  /\ Ready("graph")
  /\ size(graph) > 0
  /\ traversal' =
       Traverse("overallOrder", <<>>, leavesOnly, "DFS",
                createDFS(graph.outgoingEdges, leavesOnly, <<>>, graph.circular),
                entryNodes(graph))
  /\ UNCHANGED <<graph, cloned, last, shared>>

\* overallOrder(leavesOnly) of a graph with nodes begins its first sweep: the
\* cycle sweep over all keys, or, when circular, the sweep over the entry nodes.
BeginOverallOrder(leavesOnly) ==
  /\ Ready("graph")
  /\ size(graph) > 0
  /\ traversal' =
       IF ~graph.circular
       THEN Traverse("overallOrder", <<>>, leavesOnly, "CycleDFS",
                     createDFS(graph.outgoingEdges, FALSE, <<>>, graph.circular),
                     mapKeys(graph.nodes))
       ELSE Traverse("overallOrder", <<>>, leavesOnly, "DFS",
                     createDFS(graph.outgoingEdges, leavesOnly, <<>>, graph.circular),
                     entryNodes(graph))
  /\ UNCHANGED <<graph, cloned, last, shared>>

\* The closure is called on the next start node: it returns at once for a
\* visited node, and otherwise enters its loop.
EnterDFS ==
  /\ traversal.op # "" /\ ~traversal.running
  /\ traversal.starts # <<>> /\ traversal.d.error = NoError
  /\ LET start == Head(traversal.starts)
     IN traversal' =
          IF start \in traversal.d.visited
          THEN [traversal EXCEPT !.starts = Tail(@)]
          ELSE [traversal EXCEPT !.starts = Tail(@), !.running = TRUE,
                                 !.st = startDFS(traversal.d, start)]
  /\ UNCHANGED <<graph, cloned, last, shared>>

\* One iteration of the loop.  The nodes whose edge list the closure has pushed
\* onto the stack (their frame became a processed one) are noted in expanded.
StepDFS ==
  /\ traversal.running
  /\ Len(traversal.st.todo) > 0 /\ traversal.st.error = NoError
  /\ LET st == traversal.st
         top == Len(st.todo)
         next == stepDFS(traversal.d, st)
     IN traversal' =
          [traversal EXCEPT
             !.st = next,
             !.expanded =
                IF /\ ~st.todo[top].processed
                   /\ Len(next.todo) >= top
                   /\ next.todo[top].processed
                THEN push(@, st.todo[top].node) ELSE @]
  /\ UNCHANGED <<graph, cloned, last, shared>>

\* The loop has ended, with an empty stack or by a throw.
LeaveDFS ==
  /\ traversal.running
  /\ ~(Len(traversal.st.todo) > 0 /\ traversal.st.error = NoError)
  /\ traversal' =
       [traversal EXCEPT !.running = FALSE, !.st = NoLocals,
                         !.d = [@ EXCEPT !.visited = traversal.st.visited,
                                         !.result = traversal.st.result,
                                         !.error = traversal.st.error]]
  /\ UNCHANGED <<graph, cloned, last, shared>>

\* overallOrder goes from one forEach to the next.
NextSweep ==
  /\ traversal.op = "overallOrder" /\ ~traversal.running
  /\ traversal.starts = <<>> /\ traversal.d.error = NoError
  /\ \/ /\ traversal.phase = "CycleDFS"
        /\ traversal' =
             [traversal EXCEPT
                !.phase = "DFS",
                !.d = createDFS(graph.outgoingEdges, traversal.leavesOnly, <<>>,
                                graph.circular),
                !.starts = entryNodes(graph),
                !.expanded = <<>>]
     \/ /\ traversal.phase = "DFS" /\ graph.circular
        /\ traversal' =
             [traversal EXCEPT
                !.phase = "remaining",
                !.starts = SelectSeq(mapKeys(graph.nodes),
                                     LAMBDA node : indexOf(traversal.d.result, node) = -1)]
  /\ UNCHANGED <<graph, cloned, last, shared>>

\* The traversing call completes: by the throw of its closure, or by returning
\* the result after its last forEach.
Complete ==
  /\ traversal.op # "" /\ ~traversal.running
  /\ \/ traversal.d.error # NoError
     \/ /\ traversal.starts = <<>>
        /\ \/ traversal.phase = "remaining"
           \/ traversal.phase = "DFS"
                /\ (traversal.op = "overallOrder" => ~graph.circular)
  /\ LET d == traversal.d
         idx == IF traversal.op = "overallOrder" THEN -1
                ELSE indexOf(d.result, traversal.args[1])
     IN last' = Call("graph", traversal.op, traversal.args, traversal.leavesOnly,
                     IF d.error # NoError THEN Throw(graph, d.error)
                     ELSE Return(graph, IF idx >= 0 THEN splice(d.result, idx)
                                        ELSE d.result))
  /\ traversal' = NoTraversal
  /\ UNCHANGED <<graph, cloned, shared>>

NextDFS ==
  \/ \E node \in Node : CallAddNode("graph", node)
  \/ \E node \in Node : CallRemoveNode("graph", node)
  \/ \E from \in Node, to \in Node : CallAddDependency("graph", from, to, MaxEdgesDFS)
  \/ \E from \in Node, to \in Node : CallRemoveDependency("graph", from, to)
  \/ \E op \in {"dependenciesOf", "dependantsOf"}, node \in Node, leavesOnly \in BOOLEAN :
        BeginTransitive(op, node, leavesOnly)
  \/ \E leavesOnly \in BOOLEAN : BeginOverallOrder(leavesOnly)
  \/ EnterDFS
  \/ StepDFS
  \/ LeaveDFS
  \/ NextSweep
  \/ Complete
  \/ Continue

SpecDFS == Init /\ [][NextDFS]_vars

(* The copy specification: a graph with payloads and edges is built, in      *)
(* either mode, a clone of it is taken, and from then on the graph and the   *)
(* clone are queried and not changed.                                        *)

NextCopy ==
  \/ /\ cloned = <<>>
     /\ \/ \E node \in NodeData : CallAddNode("graph", node)
        \/ \E node \in NodeData, data \in Payload : CallAddNodeData("graph", node, data)
        \/ \E node \in NodeData : CallRemoveNode("graph", node)
        \/ \E from \in NodeData, to \in NodeData :
              CallAddDependency("graph", from, to, MaxEdgesCopy)
        \/ \E from \in NodeData, to \in NodeData : CallRemoveDependency("graph", from, to)
  \/ CallClone
  \/ /\ cloned # <<>>
     /\ \E t \in {"graph", "clone"} :
          \/ CallSize(t)
          \/ CallEntryNodes(t)
          \/ \E node \in NodeData : CallGetNodeData(t, node)
          \/ \E node \in NodeData : CallDirectDependenciesOf(t, node)
          \/ \E node \in NodeData : CallDirectDependantsOf(t, node)
          \/ \E node \in NodeData, leavesOnly \in BOOLEAN :
                CallDependenciesOf(t, node, leavesOnly)
          \/ \E node \in NodeData, leavesOnly \in BOOLEAN :
                CallDependantsOf(t, node, leavesOnly)
          \/ \E leavesOnly \in BOOLEAN : CallOverallOrder(t, leavesOnly)
  \/ Continue

SpecCopy == Init /\ [][NextCopy]_vars

(* The clone specification: calls on a graph and on the clone taken of it.  *)

NextClone ==
  \/ CallClone
  \/ \E t \in {"graph", "clone"}, node \in NodeClone : CallAddNode(t, node)
  \/ \E t \in {"graph", "clone"}, node \in NodeClone : CallRemoveNode(t, node)
  \/ \E t \in {"graph", "clone"}, from \in NodeClone, to \in NodeClone :
        CallAddDependency(t, from, to, MaxEdgesClone)
  \/ \E t \in {"graph", "clone"}, from \in NodeClone, to \in NodeClone :
        CallRemoveDependency(t, from, to)
  \/ Continue

SpecClone == Init /\ [][NextClone]_vars

----------------------------------------------------------------------------
(* Graph notions the properties are stated in, computed from the edge       *)
(* indices alone (no traversal of createDFS is used).                       *)

Registered(self) == elements(mapKeys(self.nodes))

\* The identities listed for x in an edge index.
Related(edges, x) == IF mapHas(edges, x) THEN elements(mapGet(edges, x)) ELSE {}

RECURSIVE Closure(_, _)
Closure(edges, seen) ==
  LET more == seen \cup UNION {Related(edges, x) : x \in seen}
  IN IF more = seen THEN seen ELSE Closure(edges, more)

\* The nodes reached from n by one or more edges of the index.
Reach(edges, n) == Closure(edges, Related(edges, n))

OnCycle(edges, n) == n \in Reach(edges, n)

\* Some directed cycle (a self-edge included) is reached from n.
CycleReachable(edges, n) == \E m \in {n} \cup Reach(edges, n) : OnCycle(edges, m)

HasCycle(self) == \E n \in Registered(self) : OnCycle(self.outgoingEdges, n)

NoDuplicates(arr) == \A i, j \in 1..Len(arr) : arr[i] = arr[j] => i = j

Returned(op) == last.op = op /\ last.error = NoError

Failed(op, name) == last.op = op /\ last.error.name = name

----------------------------------------------------------------------------
(* Properties.                                                              *)

\* C1: on a graph without a directed cycle, not circular-tolerant, built by any
\* sequence of mutations, overallOrder() with leavesOnly off returns a sequence
\* that holds every registered node, and for every edge from -> to of the graph
\* 'to' stands at an earlier position than 'from'.
C1_OverallOrderTopological ==
  (last.op = "overallOrder" /\ ~last.leavesOnly /\ ~graph.circular /\ ~HasCycle(graph))
  => /\ last.error = NoError
     /\ elements(last.value) = Registered(graph)
     /\ \A from \in Registered(graph) :
          \A to \in Related(graph.outgoingEdges, from) :
             /\ indexOf(last.value, to) >= 0
             /\ indexOf(last.value, to) < indexOf(last.value, from)

\* C1 witness: overallOrder() has returned on an acyclic three-node graph in
\* which one node has two dependencies and one of them depends on the other.
C1_Witness ==
  /\ Returned("overallOrder") /\ ~last.leavesOnly /\ ~graph.circular
  /\ ~HasCycle(graph)
  /\ edgeCount(graph) = 3
  /\ Len(last.value) = 3

\* C2: in every state reached by any sequence of addNode, removeNode,
\* addDependency and removeDependency calls (failing and no-op calls included),
\* 'to' is in the outgoing list of 'from' exactly when 'from' is in the incoming
\* list of 'to', for every pair of identities.
C2_EdgeIndicesSymmetric ==
  \A from \in Node, to \in Node :
     to \in Related(graph.outgoingEdges, from) <=> from \in Related(graph.incomingEdges, to)

\* C2 witness: a graph holding an edge on which addDependency has just failed
\* for an unregistered endpoint.
C2_Witness ==
  /\ Failed("addDependency", "Error")
  /\ edgeCount(graph) >= 2
  /\ \E from \in Node, to \in Node :
        /\ to \in Related(graph.outgoingEdges, from)
        /\ from \in Related(graph.incomingEdges, to)

\* C3: on a graph that is not circular-tolerant, overallOrder() fails with a
\* cycle error exactly when the graph holds a directed cycle (self-edges
\* included), whether or not entry nodes exist; on the empty graph it returns
\* the empty sequence without error.
C3_OverallOrderFailsIffCycle ==
  (last.op = "overallOrder" /\ ~graph.circular)
  => /\ last.error.name = "DepGraphCycleError" <=> HasCycle(graph)
     /\ ~HasCycle(graph) => last.error = NoError
     /\ size(graph) = 0 => (last.error = NoError /\ last.value = <<>>)

\* C3 witness: overallOrder() has failed on the pure cycle a -> b -> c -> a,
\* a graph in which every node has an incoming edge.
C3_Witness ==
  /\ Failed("overallOrder", "DepGraphCycleError") /\ ~graph.circular
  /\ size(graph) = 3
  /\ entryNodes(graph) = <<>>
  /\ \A n \in Node : Cardinality(Related(graph.outgoingEdges, n)) = 1
  /\ \A n \in Node : n \notin Related(graph.outgoingEdges, n)

\* C4: whenever dependenciesOf(n) (dependantsOf(n)) returns with leavesOnly off,
\* in either mode, the result has no duplicates and holds exactly the nodes other
\* than n reached from n by one or more outgoing (incoming) edges.
C4_TransitiveResultExact ==
  /\ (Returned("dependenciesOf") /\ ~last.leavesOnly)
     => /\ NoDuplicates(last.value)
        /\ elements(last.value) = Reach(graph.outgoingEdges, last.args[1]) \ {last.args[1]}
  /\ (Returned("dependantsOf") /\ ~last.leavesOnly)
     => /\ NoDuplicates(last.value)
        /\ elements(last.value) = Reach(graph.incomingEdges, last.args[1]) \ {last.args[1]}

\* C4 witness: on a circular-tolerant graph dependenciesOf(n) has returned two
\* nodes for a node n that lies on a cycle and has two direct dependencies.
C4_Witness ==
  /\ Returned("dependenciesOf") /\ ~last.leavesOnly /\ graph.circular
  /\ OnCycle(graph.outgoingEdges, last.args[1])
  /\ Len(last.value) = 2
  /\ Cardinality(Related(graph.outgoingEdges, last.args[1])) = 2

\* C5: when no cycle is reached from n, the result of dependenciesOf(n) lists
\* every node after all of that node's own dependencies, and the result of
\* dependantsOf(n) lists every node after all of its own dependants; with nodes
\* a, b, c, d and edges a -> d, a -> b, b -> c, d -> b added in that order,
\* dependenciesOf('a') is [c, b, d] and dependantsOf('c') is [a, d, b].
C5_TransitiveResultOrdered ==
  /\ (Returned("dependenciesOf") /\ ~last.leavesOnly
        /\ ~CycleReachable(graph.outgoingEdges, last.args[1]))
     => \A x \in elements(last.value) :
          \A y \in Related(graph.outgoingEdges, x) :
             indexOf(last.value, y) >= 0 /\ indexOf(last.value, y) < indexOf(last.value, x)
  /\ (Returned("dependantsOf") /\ ~last.leavesOnly
        /\ ~CycleReachable(graph.incomingEdges, last.args[1]))
     => \A x \in elements(last.value) :
          \A y \in Related(graph.incomingEdges, x) :
             indexOf(last.value, y) >= 0 /\ indexOf(last.value, y) < indexOf(last.value, x)
  /\ (graph = OrderingScenario /\ ~last.leavesOnly)
     => /\ (last.op = "dependenciesOf" /\ last.args = <<"a">>)
           => (last.error = NoError /\ last.value = <<"c", "b", "d">>)
        /\ (last.op = "dependantsOf" /\ last.args = <<"c">>)
           => (last.error = NoError /\ last.value = <<"a", "d", "b">>)

\* C5 witness: dependenciesOf('a') has returned [c, b, d] on the graph built by
\* adding a -> d, a -> b, b -> c, d -> b in that order.
C5_Witness ==
  /\ graph = OrderingScenario
  /\ Returned("dependenciesOf") /\ ~last.leavesOnly
  /\ last.args = <<"a">>
  /\ last.value = <<"c", "b", "d">>

C7_CycleScenarioPaths ==
  graph = CycleScenario
  => /\ last.op = "overallOrder"
        => /\ last.error.name = "DepGraphCycleError"
           /\ last.error.cyclePath = <<"d", "a", "b", "c", "a">>
           /\ last.error.message = "Dependency Cycle Found: d -> a -> b -> c -> a"
     /\ (last.op = "dependenciesOf" /\ last.args = <<"b">>)
        => /\ last.error.name = "DepGraphCycleError"
           /\ last.error.cyclePath = <<"b", "c", "a", "b">>

\* C8 as stated: every cycle error raised by dependenciesOf, dependantsOf or
\* overallOrder carries a path whose first and last elements are the same
\* identity, for every graph and start node.
C8_PathFirstIsLast ==
  last.error.name = "DepGraphCycleError"
  => last.error.cyclePath[1] = last.error.cyclePath[Len(last.error.cyclePath)]

\* C8 as amended: every cycle error raised by dependenciesOf, dependantsOf or
\* overallOrder carries a path of at least two elements whose last element is
\* the same identity as an earlier element of the path; the path of a
\* dependenciesOf(n) or dependantsOf(n) error begins with n, so the first and
\* last elements are the same only when the traversal comes back to n.
C8_PathEndsOnRepeatedNode ==
  last.error.name = "DepGraphCycleError"
  => LET path == last.error.cyclePath
     IN /\ last.op \in {"dependenciesOf", "dependantsOf", "overallOrder"}
        /\ Len(path) >= 2
        /\ \E i \in 1..(Len(path) - 1) : path[i] = path[Len(path)]
        /\ last.op \in {"dependenciesOf", "dependantsOf"} => path[1] = last.args[1]

\* C8 witness: a cycle error whose path begins with a start node that leads into
\* the cycle without being on it.
C8_Witness ==
  /\ last.error.name = "DepGraphCycleError"
  /\ last.error.cyclePath[1] # last.error.cyclePath[Len(last.error.cyclePath)]
  /\ ~OnCycle(graph.outgoingEdges, last.error.cyclePath[1])
  /\ last.op = "dependenciesOf"

\* The keys of the registry and of both edge indices of one graph agree, each
\* key once.
KeysAgree(self) ==
  /\ elements(mapKeys(self.outgoingEdges)) = Registered(self)
  /\ elements(mapKeys(self.incomingEdges)) = Registered(self)
  /\ NoDuplicates(mapKeys(self.nodes))
  /\ NoDuplicates(mapKeys(self.outgoingEdges))
  /\ NoDuplicates(mapKeys(self.incomingEdges))

\* C9: in every state reached by any sequence of mutations, and in every graph
\* produced by clone, the keys of the node registry, of the outgoing index and
\* of the incoming index are the same set: every registered node has exactly one
\* entry in each index and no entry exists for an unregistered identity.
C9_RegistryAndIndexKeysAgree ==
  /\ KeysAgree(graph)
  /\ \A i \in 1..Len(cloned) : KeysAgree(cloned[i])

\* C9 witness: removeNode has removed a node from a clone, leaving it one node,
\* while the source graph still holds that node and two edges.
C9_Witness ==
  /\ cloned # <<>>
  /\ last.op = "removeNode" /\ last.target = "clone"
  /\ ~hasNode(cloned[1], last.args[1])
  /\ hasNode(graph, last.args[1])
  /\ size(cloned[1]) = 1
  /\ edgeCount(graph) = 2

\* The identities listed anywhere in the two edge indices of a graph.
Listed(self) ==
  UNION {elements(self.outgoingEdges[i].value) : i \in 1..Len(self.outgoingEdges)}
  \cup UNION {elements(self.incomingEdges[i].value) : i \in 1..Len(self.incomingEdges)}

\* C10: after removeNode(n), n is in no outgoing or incoming list, and the
\* queries answer for the graph without it; in every reachable state every
\* identity listed in an outgoing or incoming list is a registered node.
C10_NoDanglingEdges ==
  /\ Listed(graph) \subseteq Registered(graph)
  /\ last.op = "removeNode"
     => (last.args[1] \notin Listed(graph) /\ ~hasNode(graph, last.args[1]))
  /\ (Returned("dependenciesOf") \/ Returned("dependantsOf") \/ Returned("overallOrder"))
     => elements(last.value) \subseteq Registered(graph)

\* C10 witness: removeNode(n) has completed on a graph that still holds an edge
\* between its two other nodes.
C10_Witness ==
  /\ last.op = "removeNode"
  /\ ~hasNode(graph, last.args[1])
  /\ size(graph) = 2
  /\ edgeCount(graph) >= 1

\* C11: addNode(n, data) on a registered n is a no-op in every reachable state:
\* the payload of n, its outgoing and incoming lists, the lists of every other
\* node and the node count are unchanged, also when the call passes a payload
\* that differs from the registered one.
C11_AddExistingNodeIsNoOp ==
  [][(last'.op = "addNode" /\ hasNode(graph, last'.args[1])) => graph' = graph]_vars

\* C11 witness: addNode(n, data) has completed for a node n that has an edge
\* and whose registered payload is not the payload passed.
C11_Witness ==
  /\ last.op = "addNode" /\ Len(last.args) = 2
  /\ hasNode(graph, last.args[1])
  /\ mapGet(graph.nodes, last.args[1]) # last.args[2]
  /\ Related(graph.outgoingEdges, last.args[1]) # {}
  /\ Related(graph.incomingEdges, last.args[1]) # {}

\* The calls that take one node and fail for an unregistered one.
NodeQueries ==
  {"getNodeData", "setNodeData", "directDependenciesOf", "directDependantsOf",
   "dependenciesOf", "dependantsOf"}

\* C12: getNodeData, setNodeData, directDependenciesOf, directDependantsOf,
\* dependenciesOf and dependantsOf called with an unregistered node, and
\* addDependency(from, to) with an unregistered endpoint, fail with a 'Node does
\* not exist' error naming the missing identity ('from' when both are missing)
\* and leave the registry and both edge indices as they were.
C12_UnregisteredNodeFails ==
  [][/\ (last'.op \in NodeQueries /\ ~hasNode(graph, last'.args[1]))
        => /\ last'.error.name = "Error"
           /\ last'.error.message = "Node does not exist: " \o last'.args[1]
           /\ graph' = graph
     /\ (last'.op = "addDependency" /\ ~hasNode(graph, last'.args[1]))
        => /\ last'.error.name = "Error"
           /\ last'.error.message = "Node does not exist: " \o last'.args[1]
           /\ graph' = graph
     /\ (last'.op = "addDependency" /\ hasNode(graph, last'.args[1])
           /\ ~hasNode(graph, last'.args[2]))
        => /\ last'.error.name = "Error"
           /\ last'.error.message = "Node does not exist: " \o last'.args[2]
           /\ graph' = graph]_vars

\* C12 witness: addDependency(from, to) has failed naming 'from' with neither
\* of its two distinct endpoints registered, and the graph is still empty.
C12_Witness ==
  /\ last.op = "addDependency"
  /\ last.args[1] # last.args[2]
  /\ ~hasNode(graph, last.args[1]) /\ ~hasNode(graph, last.args[2])
  /\ last.error.message = "Node does not exist: " \o last.args[1]
  /\ size(graph) = 0

\* C13: on a circular-tolerant graph dependenciesOf, dependantsOf and
\* overallOrder never raise a cycle error, whatever the graph, and
\* overallOrder() with leavesOnly off returns every registered node exactly once.
C13_CircularNeverFails ==
  graph.circular =>
    /\ last.op \in {"dependenciesOf", "dependantsOf", "overallOrder"}
          => last.error.name # "DepGraphCycleError"
    /\ (last.op = "overallOrder" /\ ~last.leavesOnly)
          => /\ last.error = NoError
             /\ NoDuplicates(last.value)
             /\ elements(last.value) = Registered(graph)

\* C13 witness: overallOrder() has returned three nodes on a circular-tolerant
\* graph in which every node lies on a cycle, so that no node is an entry node.
C13_Witness ==
  /\ graph.circular
  /\ Returned("overallOrder") /\ ~last.leavesOnly
  /\ size(graph) = 3
  /\ \A n \in Registered(graph) : OnCycle(graph.outgoingEdges, n)
  /\ Len(last.value) = 3

\* The calls that change the graph they are made on.
Mutations == {"addNode", "removeNode", "addDependency", "removeDependency"}

\* C14: after g2 = g.clone(), no addNode, removeNode, addDependency or
\* removeDependency call on g2 changes the registry or an edge index of g, and
\* no such call on g changes those of g2.
C14_CloneIsIndependent ==
  [][(last'.op \in Mutations /\ cloned # <<>>)
       => /\ last'.target = "clone" => graph' = graph
          /\ last'.target = "graph" => cloned' = cloned]_vars

\* C14 witness: an edge present when the clone was taken has since been removed
\* from the clone, by the call that has just completed, and the source holds it.
C14_Witness ==
  /\ cloned # <<>>
  /\ last.op = "removeDependency" /\ last.target = "clone"
  /\ hasNode(graph, last.args[1]) /\ hasNode(cloned[1], last.args[1])
  /\ last.args[2] \in Related(graph.outgoingEdges, last.args[1])
  /\ last.args[2] \notin Related(cloned[1].outgoingEdges, last.args[1])
  /\ Related(graph.incomingEdges, last.args[2])
       # Related(cloned[1].incomingEdges, last.args[2])

\* The nodes the loop has not yet expanded.
Unexpanded(t) == elements(mapKeys(t.d.edges)) \ (t.st.visited \cup t.st.inCurrentPath)

RECURSIVE Sum(_, _)
Sum(f, S) ==
  IF S = {} THEN 0 ELSE LET x == CHOOSE y \in S : TRUE IN f[x] + Sum(f, S \ {x})

\* What is left to do of a traversing call: the forEach loops still to come,
\* the calls of the closure still to make or to return from, and for a loop
\* that has not thrown the frames on the stack plus those the unexpanded nodes
\* can still put there.
Rank(t) ==
  <<IF t.phase = "CycleDFS" \/ (t.op = "overallOrder" /\ t.phase = "DFS" /\ t.d.circular)
    THEN 1 ELSE 0,
    2 * Len(t.starts) + (IF t.running THEN 1 ELSE 0),
    IF t.running /\ t.st.error = NoError
    THEN Len(t.st.todo)
         + Sum([n \in Unexpanded(t) |-> 1 + Len(mapGet(t.d.edges, n))], Unexpanded(t))
    ELSE 0>>

LexLess(r, q) ==
  \/ r[1] < q[1]
  \/ r[1] = q[1] /\ r[2] < q[2]
  \/ r[1] = q[1] /\ r[2] = q[2] /\ r[3] < q[3]

\* C15: every call of dependenciesOf, dependantsOf and overallOrder terminates on
\* every graph, in both modes, cycles and self-edges included: while the call is
\* in progress it always has a next step, every step takes what is left to do
\* (three natural numbers, the last one counting the frames on the stack) to a
\* smaller value in the lexicographic order, and a loop is only left, without
\* a throw, with an empty stack.
C15_TraversalTerminates ==
  /\ [](traversal.op # "" =>
          ENABLED (EnterDFS \/ StepDFS \/ LeaveDFS \/ NextSweep \/ Complete))
  /\ [][(traversal.op # "" /\ traversal'.op # "")
          => LexLess(Rank(traversal'), Rank(traversal))]_vars
  /\ [][(traversal.running /\ ~traversal'.running /\ traversal'.d.error = NoError)
          => traversal.st.todo = <<>>]_vars

\* C15 witness: a loop of a circular-tolerant graph's traversal has emptied its
\* stack after it met a node of the current path again.
C15_Witness ==
  /\ graph.circular
  /\ traversal.running
  /\ traversal.st.todo = <<>>
  /\ \E n \in traversal.st.visited :
        \E m \in Reach(traversal.d.edges, n) : n \in Related(traversal.d.edges, m)

\* The registered nodes with an empty outgoing list.
Leaves(self) == {n \in Registered(self) : Related(self.outgoingEdges, n) = {}}

\* C16: whenever overallOrder(leavesOnly = true) returns, in either mode, its
\* result holds exactly the registered nodes whose outgoing list is empty, each
\* once ([d, e] for the nodes a..e with the edges a -> b, a -> c, b -> c,
\* c -> d); dependenciesOf(n, true) returns exactly the nodes reachable from n,
\* other than n, that have no outgoing edge.
C16_LeavesOnlyResults ==
  /\ (Returned("overallOrder") /\ last.leavesOnly)
        => /\ NoDuplicates(last.value)
           /\ elements(last.value) = Leaves(graph)
           /\ graph = LeavesScenario => last.value = <<"d", "e">>
  /\ (Returned("dependenciesOf") /\ last.leavesOnly)
        => /\ NoDuplicates(last.value)
           /\ elements(last.value)
                = (Reach(graph.outgoingEdges, last.args[1]) \ {last.args[1]})
                     \cap Leaves(graph)

\* C16 witness: overallOrder(true) has returned [d, e] on the graph of the
\* leaves scenario.
C16_Witness ==
  /\ Returned("overallOrder") /\ last.leavesOnly
  /\ graph = LeavesScenario
  /\ last.value = <<"d", "e">>

\* C17: addNode, removeNode and removeDependency never raise; removeNode of an
\* unregistered identity, and removeDependency(from, to) with an unregistered
\* endpoint or with no edge from -> to, leave the registry and both edge
\* indices as they were.
C17_RemovalsOfNothingAreNoOps ==
  [][/\ last'.op \in {"addNode", "removeNode", "removeDependency"}
          => last'.error = NoError
     /\ (last'.op = "removeNode" /\ ~hasNode(graph, last'.args[1]))
          => graph' = graph
     /\ (last'.op = "removeDependency"
           /\ (\/ ~hasNode(graph, last'.args[1])
               \/ ~hasNode(graph, last'.args[2])
               \/ last'.args[2] \notin Related(graph.outgoingEdges, last'.args[1])))
          => graph' = graph]_vars

\* C17 witness: removeDependency(from, to) has completed for an unregistered
\* 'to' and a registered 'from' that has outgoing edges.
C17_Witness ==
  /\ Returned("removeDependency")
  /\ hasNode(graph, last.args[1]) /\ ~hasNode(graph, last.args[2])
  /\ Related(graph.outgoingEdges, last.args[1]) # {}

\* A registered node that has no dependant.
Entry(self, n) == hasNode(self, n) /\ Related(self.incomingEdges, n) = {}

\* C18: entryNodes() returns exactly the registered identities whose incoming
\* list is empty, each once, in registration order; and a node that stays
\* registered stops being an entry node exactly by an addDependency that adds
\* its first dependant edge, and becomes one exactly by a removeDependency or a
\* removeNode of the dependant that removes its last dependant edge.
C18_EntryNodes ==
  /\ [](Returned("entryNodes") =>
          /\ NoDuplicates(last.value)
          /\ elements(last.value) = {n \in Registered(graph) : Entry(graph, n)}
          /\ \A i, j \in 1..Len(last.value) :
                i < j => indexOf(mapKeys(graph.nodes), last.value[i])
                           < indexOf(mapKeys(graph.nodes), last.value[j]))
  /\ [][\A n \in Registered(graph) \cap Registered(graph') :
          LET firstAdded ==
                /\ last'.op = "addDependency" /\ last'.error = NoError
                /\ last'.args[2] = n
                /\ Related(graph.incomingEdges, n) = {}
              lastRemoved ==
                /\ \/ last'.op = "removeDependency" /\ last'.args[2] = n
                   \/ last'.op = "removeNode"
                /\ Related(graph.incomingEdges, n) = {last'.args[1]}
          IN /\ (Entry(graph, n) /\ ~Entry(graph', n)) <=> firstAdded
             /\ (~Entry(graph, n) /\ Entry(graph', n)) <=> lastRemoved]_vars

\* C18 witness: entryNodes() has returned two of three registered nodes, of
\* which the first registered is not an entry node.
C18_Witness ==
  /\ Returned("entryNodes")
  /\ size(graph) = 3
  /\ Len(last.value) = 2
  /\ ~Entry(graph, mapKeys(graph.nodes)[1])

CycleKeys(self) ==
  SelectSeq(mapKeys(self.nodes), LAMBDA n : CycleReachable(self.outgoingEdges, n))

C21_SameAsRecursiveDFS ==
  \A op \in {"dependenciesOf", "dependantsOf"} :
    (last.op = op /\ ~graph.circular /\ hasNode(graph, last.args[1])) =>
      LET old == oldTransitiveOf(graph,
                                 IF op = "dependantsOf" THEN graph.incomingEdges
                                 ELSE graph.outgoingEdges,
                                 last.args[1], last.leavesOnly)
      IN IF old.error = NoError
         THEN last.error = NoError /\ last.value = old.value
         ELSE /\ last.error.name = "DepGraphCycleError"
              /\ last.error.cyclePath = old.error.cyclePath
              /\ last.error.message = old.error.message

\* C21 witness: dependenciesOf(n) has returned, in their declaration order, the
\* two nodes that n lists as its dependencies, the second of which was
\* registered before the first.
C21_Witness ==
  /\ ~graph.circular
  /\ Returned("dependenciesOf") /\ ~last.leavesOnly
  /\ Len(last.value) = 2
  /\ last.value = mapGet(graph.outgoingEdges, last.args[1])
  /\ indexOf(mapKeys(graph.nodes), last.value[2])
       < indexOf(mapKeys(graph.nodes), last.value[1])

\* The edges from -> to that lie on no cycle: from is not reached from to.
NonCycleEdges(self) ==
  {e \in Registered(self) \X Registered(self) :
     /\ e[2] \in Related(self.outgoingEdges, e[1])
     /\ e[1] \notin Reach(self.outgoingEdges, e[2])}

\* C22: on a circular-tolerant graph the result of overallOrder() respects every
\* dependency that is not part of a cycle: for every edge from -> to with from
\* not reachable from to along outgoing edges, to comes before from.
C22_CircularOrderRespectsNonCycleEdges ==
  (graph.circular /\ Returned("overallOrder") /\ ~last.leavesOnly) =>
    \A e \in NonCycleEdges(graph) :
       /\ indexOf(last.value, e[2]) >= 0
       /\ indexOf(last.value, e[2]) < indexOf(last.value, e[1])

\* C22 witness: overallOrder() has returned on a circular-tolerant graph with a
\* cycle and an edge into the cycle from a node registered before its target.
C22_Witness ==
  /\ graph.circular /\ Returned("overallOrder") /\ ~last.leavesOnly
  /\ \E e \in NonCycleEdges(graph) :
        /\ OnCycle(graph.outgoingEdges, e[2])
        /\ indexOf(mapKeys(graph.nodes), e[1]) < indexOf(mapKeys(graph.nodes), e[2])

\* C23: in every reachable state no outgoing and no incoming edge list holds an
\* identity twice, and addDependency(from, to) for an edge that is present
\* leaves both edge indices, contents and order, as they were.
C23_NoDuplicateEdges ==
  /\ [](\A n \in Registered(graph) :
          /\ NoDuplicates(mapGet(graph.outgoingEdges, n))
          /\ NoDuplicates(mapGet(graph.incomingEdges, n)))
  /\ [][(/\ last'.op = "addDependency"
         /\ hasNode(graph, last'.args[1])
         /\ last'.args[2] \in Related(graph.outgoingEdges, last'.args[1]))
          => /\ last'.error = NoError
             /\ graph' = graph]_vars

\* C23 witness: addDependency(from, to) has completed for an edge that was
\* present: to is the first of the two dependencies of from, and a new edge
\* would be the last one.
C23_Witness ==
  /\ Returned("addDependency")
  /\ Len(mapGet(graph.outgoingEdges, last.args[1])) = 2
  /\ mapGet(graph.outgoingEdges, last.args[1])[1] = last.args[2]
  /\ Len(mapGet(graph.incomingEdges, last.args[2])) = 2
  /\ mapGet(graph.incomingEdges, last.args[2])[1] = last.args[1]

\* C24: within one instance of the closure (a dependenciesOf or dependantsOf
\* call, the cycle sweep of an overallOrder call, or its result-building
\* sweeps), in both modes, every node has its edge list expanded at most once
\* and is appended to the result at most once, whatever the number of start
\* nodes run and of paths that reach the node.
C24_ExpandedAndAppendedOnce ==
  traversal.op # "" =>
    /\ NoDuplicates(traversal.expanded)
    /\ NoDuplicates(traversal.d.result)
    /\ traversal.running => NoDuplicates(traversal.st.result)

\* C24 witness: the result-building sweep of overallOrder has run from two
\* entry nodes that both depend on a third node, and has expanded and appended
\* three nodes.
C24_Witness ==
  /\ traversal.op = "overallOrder" /\ traversal.phase = "DFS"
  /\ ~traversal.running /\ traversal.starts = <<>>
  /\ Len(entryNodes(graph)) = 2
  /\ \E n \in Registered(graph) : Cardinality(Related(graph.incomingEdges, n)) = 2
  /\ Len(traversal.expanded) = 3
  /\ Len(traversal.d.result) = 3

\* The completion of a query on a graph.
Query(self, op, args, leavesOnly) ==
  CASE op = "size" -> Return(self, size(self))
    [] op = "entryNodes" -> Return(self, entryNodes(self))
    [] op = "getNodeData" -> getNodeData(self, args[1])
    [] op = "directDependenciesOf" -> directDependenciesOf(self, args[1])
    [] op = "directDependantsOf" -> directDependantsOf(self, args[1])
    [] op = "dependenciesOf" -> dependenciesOf(self, args[1], leavesOnly)
    [] op = "dependantsOf" -> dependantsOf(self, args[1], leavesOnly)
    [] op = "overallOrder" -> overallOrder(self, leavesOnly)

Queries ==
  {"size", "entryNodes", "getNodeData", "directDependenciesOf", "directDependantsOf",
   "dependenciesOf", "dependantsOf", "overallOrder"}

\* C25: right after g2 = g.clone(), g2 has the flag of g, the registered nodes
\* of g in the same registration order with the same payloads, and the edge
\* lists of g in the same order; and as long as neither is changed, every query
\* made on g2 returns the value, or raises the error, that it does on g.
C25_CloneAnswersAsSource ==
  /\ last.op = "clone" =>
       /\ cloned[1].circular = graph.circular
       /\ mapKeys(cloned[1].nodes) = mapKeys(graph.nodes)
       /\ \A n \in Registered(graph) :
             /\ mapGet(cloned[1].nodes, n) = mapGet(graph.nodes, n)
             /\ mapGet(cloned[1].outgoingEdges, n) = mapGet(graph.outgoingEdges, n)
             /\ mapGet(cloned[1].incomingEdges, n) = mapGet(graph.incomingEdges, n)
       /\ mapKeys(cloned[1].outgoingEdges) = mapKeys(graph.nodes)
       /\ mapKeys(cloned[1].incomingEdges) = mapKeys(graph.nodes)
  /\ (last.target = "clone" /\ last.op \in Queries) =>
       LET onSource == Query(graph, last.op, last.args, last.leavesOnly)
       IN last.error = onSource.error
          /\ (last.error = NoError => last.value = onSource.value)

\* C25 witness: overallOrder() has returned on the clone of a circular-tolerant
\* graph that holds a cycle and a node with a payload of its own.
C25_Witness ==
  /\ last.target = "clone" /\ Returned("overallOrder")
  /\ graph.circular /\ HasCycle(graph)
  /\ Len(last.value) = 2
  /\ \E n \in Registered(graph) : mapGet(graph.nodes, n) \in Payload

====
